---- MODULE Spec2Model ----
(***************************************************************************)
(* Model of the JSON-RPC 2.0 server codec of package jsonrpc2              *)
(* (serverCodec: ReadRequestHeader, ReadRequestBody, WriteResponse,        *)
(* Close) and of the dispatch loop that drives it.                         *)
(*                                                                         *)
(* One reader goroutine decodes the requests of one connection in order;   *)
(* every WriteResponse call runs as a goroutine of its own, so responses   *)
(* complete in any order.  Inside the locked region the increment and the *)
(* store of ReadRequestHeader, and the lookup and the delete of            *)
(* WriteResponse, are steps of their own; reads and writes of the stream   *)
(* are steps outside it.                                                   *)
(***************************************************************************)
EXTENDS Integers, Sequences, FiniteSets, TLC

(* ---- bounds of the model ---- *)
\* requests decoded from the stream of one connection
MaxReq == 2

(* ---- constants of the program ---- *)
Version == "2.0"

ErrCodeParse == -32700
ErrCodeInvalidReq == -32600
ErrCodeMethodNotFound == -32601
ErrCodeInvalidParams == -32602
ErrCodeCustom == -32003

ErrMsgParse == "Parse error"
ErrMsgInvalidReq == "Invalid Request"
ErrMsgMethodNotFound == "Method not found"
ErrMsgInvalidParams == "Invalid params"

(* ---- JSON values ---- *)
\* a nil *json.RawMessage, a nil interface{}
Nil == <<>>
\* a member that the request object does not have
Absent == <<"absent">>
JNull == <<"null">>
\* var null = json.RawMessage([]byte("null"))
null == JNull

\* DecodeRaw for a json.RawMessage field that is not a pointer: a missing
\* member can no longer be told from null
DecodeRaw_NoPointer(m) == IF m = Absent THEN JNull ELSE m

\* encoding/json storing one member of the request into a *json.RawMessage
\* field that reset() left nil: a missing member leaves the pointer nil, and
\* the literal null sets the pointer to nil; anything else is kept raw.
DecodeRaw(m) == IF m = Absent \/ m = JNull THEN Nil ELSE m

\* encoding/json storing one member into a string field that reset() left "":
\* a missing member and the literal null leave it as it is.
DecodeString(m) == IF m = Absent \/ m = JNull THEN "" ELSE m[2]

(* ---- error values ---- *)
NoData == <<>>
\* a nil error
NoErr == [kind |-> "nil", code |-> 0, msg |-> "", data |-> NoData]
\* &Error{Code, Msg, Data}
RPCError(c, m, d) == [kind |-> "rpc", code |-> c, msg |-> m, data |-> d]
\* the error json.Decoder.Decode returns for a syntax failure
DecodeFailure == [kind |-> "raw", code |-> 0, msg |-> "invalid character", data |-> NoData]
\* errors.New("invalid sequence number in response")
InvalidSeqError == [kind |-> "local", code |-> 0, msg |-> "invalid sequence number in response", data |-> NoData]
\* the error of a write to, or a read from, a closed stream
StreamError == [kind |-> "io", code |-> 0, msg |-> "closed pipe", data |-> NoData]

(* ---- method names: strings as sequences of characters ---- *)
\* LastIndex counting from 1, so that "not found" is 0 and passes dot < 0
LastIndex_FromOne(s) ==
    IF \E i \in 1..Len(s) : s[i] = "."
    THEN CHOOSE i \in 1..Len(s) : s[i] = "." /\ \A j \in (i+1)..Len(s) : s[j] # "."
    ELSE 0

\* strings.LastIndex(s, "."), counted from 0; -1 when there is none
LastIndex(s) ==
    IF \E i \in 1..Len(s) : s[i] = "."
    THEN (CHOOSE i \in 1..Len(s) : s[i] = "." /\ \A j \in (i+1)..Len(s) : s[j] # ".") - 1
    ELSE -1

(* ---- the requests a client may send ---- *)
Req(wf, v, m, p, i) == [wf |-> wf, jsonrpc |-> v, method |-> m, params |-> p, id |-> i]

V2 == <<"string", "2.0">>
V1 == <<"string", "1.0">>
ArithSub == <<"A", ".", "S">>
ArithFoobar == <<"A", ".", "F">>
NoDot == <<"f">>
PArray == <<"array", "[42,23]">>
PObject == <<"object", "{minuend:42,subtrahend:23}">>
IdNum == <<"number", "1">>
IdStr == <<"string", "1">>

Inputs ==
    { Req(FALSE, Absent, <<>>, Absent, Absent) }
    \cup { Req(TRUE, V2, ArithSub, PArray, i) : i \in {IdNum, Absent} }
    \cup { Req(TRUE, V2, ArithSub, PObject, JNull) }
    \cup { Req(TRUE, V2, ArithSub, JNull, IdNum) }
    \cup { Req(TRUE, V2, ArithSub, Absent, Absent) }
    \cup { Req(TRUE, V2, ArithFoobar, Absent, IdStr), Req(TRUE, V2, ArithFoobar, PArray, Absent) }
    \cup { Req(TRUE, V2, NoDot, PArray, i) : i \in {IdStr, Absent} }
    \cup { Req(TRUE, v, ArithSub, Absent, IdNum) : v \in {V1, Absent} }

VARIABLES
    req,        \* c.req, the codec's work space
    seq,        \* c.seq
    pending,    \* c.pending
    mutex,      \* c.mutex: <<>> when free, else its holder
    closed,     \* whether c.c has been closed
    wire,       \* what has been written to c.c (the order of the writes is not kept)
    rd,         \* the reader goroutine: its position, its *Request, its last return
    tasks,      \* the WriteResponse calls, in the order they were started
    nread,      \* requests decoded so far
    hist        \* history: the id member of every accepted request, in read order

vars == <<req, seq, pending, mutex, closed, wire, rd, tasks, nread, hist>>

Free == <<>>
ReaderHolds == <<"reader">>
TaskHolds(t) == <<"task", t>>

\* serverRequest.reset
reset == [Version |-> "", Method |-> <<>>, Params |-> Nil, Id |-> Nil]

\* NewServerCodec
Init ==
    /\ req = reset
    /\ seq = 0
    /\ pending = <<>>
    /\ mutex = Free
    /\ closed = FALSE
    /\ wire = {}
    /\ rd = [pc |-> "idle", Seq |-> 0, ServiceMethod |-> <<>>, ret |-> NoErr,
             in |-> Req(FALSE, Absent, <<>>, Absent, Absent)]
    /\ tasks = <<>>
    /\ nread = 0
    /\ hist = <<>>

(* ---- ReadRequestHeader, by the reader goroutine ---- *)

\* the loop is inside a WriteResponse call of its own: it answers a failed
\* header, an unknown method and a rejected body before it reads on
LoopBusy ==
    \E t \in DOMAIN tasks :
        tasks[t].why.cause \in {"syntax", "nodot", "notfound", "body"} /\ tasks[t].pc # "done"

\* RRH_Decode turning the decoder's failure into a typed Invalid-Request error
RRH_Decode_Typed(in) ==
    /\ rd.pc = "idle"
    /\ ~LoopBusy
    /\ ~closed
    /\ nread < MaxReq
    /\ nread' = nread + 1
    /\ LET r == IF in.wf
                THEN [Version |-> DecodeString(in.jsonrpc), Method |-> in.method,
                      Params |-> DecodeRaw(in.params), Id |-> DecodeRaw(in.id)]
                ELSE reset
       IN  /\ req' = r
           /\ IF ~in.wf \/ LastIndex(r.Method) < 0
              THEN rd' = [rd EXCEPT !.pc = "hdrfail", !.Seq = 0, !.ServiceMethod = r.Method,
                                    !.ret = RPCError(ErrCodeInvalidReq, ErrMsgInvalidReq,
                                                     <<"ill-formed", r.Method>>),
                                    !.in = in]
              ELSE rd' = [rd EXCEPT !.pc = "lock", !.Seq = 0, !.ServiceMethod = r.Method,
                                    !.ret = NoErr, !.in = in]
    /\ UNCHANGED <<seq, pending, mutex, closed, wire, tasks, hist>>

\* RRH_Decode without the reset: a member the request does not have keeps the
\* value the previous request left in the work space
RRH_Decode_NoReset(in) ==
    /\ rd.pc = "idle"
    /\ ~LoopBusy
    /\ ~closed
    /\ nread < MaxReq
    /\ nread' = nread + 1
    /\ IF ~in.wf
       THEN /\ req' = req
            /\ rd' = [rd EXCEPT !.pc = "hdrfail", !.Seq = 0, !.ServiceMethod = <<>>,
                                !.ret = DecodeFailure, !.in = in]
       ELSE LET r == [Version |-> IF in.jsonrpc = Absent THEN req.Version
                                  ELSE DecodeString(in.jsonrpc),
                      Method  |-> in.method,
                      Params  |-> IF in.params = Absent THEN req.Params
                                  ELSE DecodeRaw(in.params),
                      Id      |-> IF in.id = Absent THEN req.Id ELSE DecodeRaw(in.id)]
                dot == LastIndex(r.Method)
            IN  /\ req' = r
                /\ IF dot < 0
                   THEN rd' = [rd EXCEPT !.pc = "hdrfail", !.Seq = 0,
                                         !.ServiceMethod = r.Method,
                                         !.ret = RPCError(ErrCodeInvalidReq, ErrMsgInvalidReq,
                                                          <<"ill-formed", r.Method>>),
                                         !.in = in]
                   ELSE rd' = [rd EXCEPT !.pc = "lock", !.Seq = 0,
                                         !.ServiceMethod = r.Method,
                                         !.ret = NoErr, !.in = in]
    /\ UNCHANGED <<seq, pending, mutex, closed, wire, tasks, hist>>

\* RRH_Decode returning the method name without its service
RRH_Decode_BareName(in) ==
    /\ rd.pc = "idle"
    /\ ~LoopBusy
    /\ ~closed
    /\ nread < MaxReq
    /\ nread' = nread + 1
    /\ IF ~in.wf
       THEN /\ req' = reset
            /\ rd' = [rd EXCEPT !.pc = "hdrfail", !.Seq = 0, !.ServiceMethod = <<>>,
                                !.ret = DecodeFailure, !.in = in]
       ELSE LET r == [Version |-> DecodeString(in.jsonrpc),
                      Method  |-> in.method,
                      Params  |-> DecodeRaw(in.params),
                      Id      |-> DecodeRaw(in.id)]
                dot == LastIndex(r.Method)
            IN  /\ req' = r
                /\ IF dot < 0
                   THEN rd' = [rd EXCEPT !.pc = "hdrfail", !.Seq = 0,
                                         !.ServiceMethod = r.Method,
                                         !.ret = RPCError(ErrCodeInvalidReq, ErrMsgInvalidReq,
                                                          <<"ill-formed", r.Method>>),
                                         !.in = in]
                   ELSE rd' = [rd EXCEPT !.pc = "lock", !.Seq = 0,
                                         !.ServiceMethod = SubSeq(r.Method, dot + 2, Len(r.Method)),
                                         !.ret = NoErr, !.in = in]
    /\ UNCHANGED <<seq, pending, mutex, closed, wire, tasks, hist>>

\* RRH_Decode storing the id under a new sequence number before it looks at
\* the method
RRH_Decode_AllocateFirst(in) ==
    /\ rd.pc = "idle"
    /\ ~LoopBusy
    /\ ~closed
    /\ nread < MaxReq
    /\ nread' = nread + 1
    /\ IF ~in.wf
       THEN /\ req' = reset
            /\ rd' = [rd EXCEPT !.pc = "hdrfail", !.Seq = 0, !.ServiceMethod = <<>>,
                                !.ret = DecodeFailure, !.in = in]
            /\ UNCHANGED <<seq, pending>>
       ELSE LET r == [Version |-> DecodeString(in.jsonrpc),
                      Method  |-> in.method,
                      Params  |-> DecodeRaw(in.params),
                      Id      |-> DecodeRaw(in.id)]
                dot == LastIndex(r.Method)
            IN  /\ req' = r
                /\ IF dot < 0
                   THEN /\ mutex = Free
                        /\ seq' = seq + 1
                        /\ pending' = [n \in DOMAIN pending \cup {seq + 1} |->
                                          IF n = seq + 1 THEN r.Id ELSE pending[n]]
                        /\ rd' = [rd EXCEPT !.pc = "hdrfail", !.Seq = 0,
                                            !.ServiceMethod = r.Method,
                                            !.ret = RPCError(ErrCodeInvalidReq, ErrMsgInvalidReq,
                                                             <<"ill-formed", r.Method>>),
                                            !.in = in]
                   ELSE /\ rd' = [rd EXCEPT !.pc = "lock", !.Seq = 0,
                                            !.ServiceMethod = r.Method,
                                            !.ret = NoErr, !.in = in]
                        /\ UNCHANGED <<seq, pending>>
    /\ UNCHANGED <<mutex, closed, wire, tasks, hist>>

\* lines 68-81: reset, Decode, r.ServiceMethod, the check for the qualifier;
\* r is a fresh Request, its Seq is 0
RRH_Decode(in) ==
    /\ rd.pc = "idle"
    /\ ~LoopBusy
    /\ ~closed
    /\ nread < MaxReq
    /\ nread' = nread + 1
    /\ IF ~in.wf
       THEN \* Decode fails before it stores anything
            /\ req' = reset
            /\ rd' = [rd EXCEPT !.pc = "hdrfail", !.Seq = 0, !.ServiceMethod = <<>>,
                                !.ret = DecodeFailure, !.in = in]
       ELSE LET r == [Version |-> DecodeString(in.jsonrpc),
                      Method  |-> in.method,
                      Params  |-> DecodeRaw(in.params),
                      Id      |-> DecodeRaw(in.id)]
                dot == LastIndex(r.Method)
            IN  /\ req' = r
                /\ IF dot < 0
                   THEN rd' = [rd EXCEPT !.pc = "hdrfail", !.Seq = 0,
                                         !.ServiceMethod = r.Method,
                                         !.ret = RPCError(ErrCodeInvalidReq, ErrMsgInvalidReq,
                                                          <<"ill-formed", r.Method>>),
                                         !.in = in]
                   ELSE rd' = [rd EXCEPT !.pc = "lock", !.Seq = 0,
                                         !.ServiceMethod = r.Method,
                                         !.ret = NoErr, !.in = in]
    /\ UNCHANGED <<seq, pending, mutex, closed, wire, tasks, hist>>

\* RRH_Lock incrementing c.seq without taking the lock
RRH_Lock_Unlocked ==
    /\ rd.pc = "lock"
    /\ seq' = seq + 1
    /\ rd' = [rd EXCEPT !.pc = "store"]
    /\ UNCHANGED <<req, pending, mutex, closed, wire, tasks, nread, hist>>

\* RRH_Lock taking the next number from the size of the table
RRH_Lock_BySize ==
    /\ rd.pc = "lock"
    /\ mutex = Free
    /\ mutex' = ReaderHolds
    /\ seq' = Cardinality(DOMAIN pending) + 1
    /\ rd' = [rd EXCEPT !.pc = "store"]
    /\ UNCHANGED <<req, pending, closed, wire, tasks, nread, hist>>

\* lines 86-87: c.mutex.Lock(); c.seq++   (uint64; the model stops far below the wrap)
RRH_Lock ==
    /\ rd.pc = "lock"
    /\ mutex = Free
    /\ mutex' = ReaderHolds
    /\ seq' = seq + 1
    /\ rd' = [rd EXCEPT !.pc = "store"]
    /\ UNCHANGED <<req, pending, closed, wire, tasks, nread, hist>>

\* RRH_Store keying the entry by r.Seq before r.Seq is set
RRH_Store_StaleSeq ==
    /\ rd.pc = "store"
    /\ pending' = [n \in DOMAIN pending \cup {rd.Seq} |-> IF n = rd.Seq THEN req.Id ELSE pending[n]]
    /\ req' = [req EXCEPT !.Id = Nil]
    /\ rd' = [rd EXCEPT !.pc = "hdrok", !.Seq = seq]
    /\ hist' = Append(hist, [seq |-> seq, id |-> rd.in.id])
    /\ mutex' = Free
    /\ UNCHANGED <<seq, closed, wire, tasks, nread>>

\* lines 88-93: c.pending[c.seq] = c.req.Id; c.req.Id = nil; r.Seq = c.seq;
\* c.mutex.Unlock(); return nil
RRH_Store ==
    /\ rd.pc = "store"
    /\ pending' = [n \in DOMAIN pending \cup {seq} |-> IF n = seq THEN req.Id ELSE pending[n]]
    /\ req' = [req EXCEPT !.Id = Nil]
    /\ rd' = [rd EXCEPT !.pc = "hdrok", !.Seq = seq]
    /\ hist' = Append(hist, [seq |-> seq, id |-> rd.in.id])
    /\ mutex' = Free
    /\ UNCHANGED <<seq, closed, wire, tasks, nread>>

(* ---- ReadRequestBody ---- *)
NoDest == <<>>
Dests == {NoDest, <<"array">>}

\* json.Unmarshal(*c.req.Params, &x): the raw params decode into the
\* destination when they have its shape
Unmarshals(p, x) == p[1] = x[1]

\* BodyResult looking at the params before it looks at the destination
BodyResult_ParamsFirst(x) ==
    IF req.Params = Nil THEN RPCError(ErrCodeInvalidParams, ErrMsgInvalidParams, NoData)
    ELSE IF x = NoDest THEN NoErr
    ELSE IF ~Unmarshals(req.Params, x) THEN RPCError(ErrCodeParse, ErrMsgParse, NoData)
    ELSE NoErr

\* lines 96-116
BodyResult(x) ==
    IF x = NoDest THEN NoErr
    ELSE IF req.Params = Nil THEN RPCError(ErrCodeInvalidParams, ErrMsgInvalidParams, NoData)
    ELSE IF ~Unmarshals(req.Params, x) THEN RPCError(ErrCodeParse, ErrMsgParse, NoData)
    ELSE NoErr

ReadRequestBody(x) ==
    /\ rd.pc = "hdrok"
    /\ rd' = [rd EXCEPT !.pc = "body", !.ret = BodyResult(x)]
    /\ UNCHANGED <<req, seq, pending, mutex, closed, wire, tasks, nread, hist>>

(* ---- WriteResponse, one goroutine per call ---- *)

\* a call WriteResponse(r, x) with r.Seq = n and r.Error = e, about to start;
\* b and ok are its locals, ret what it returns; why records which request
\* the call answers and on which path (history only)
Call(n, x, e, why) ==
    [pc |-> "lock", Seq |-> n, x |-> x, Error |-> e, b |-> Nil, ok |-> FALSE,
     ret |-> NoErr, why |-> why]

\* the members json.Encoder writes for a serverResponse: jsonrpc and id
\* always, result and error unless empty (omitempty: a nil interface)
Members(resp) ==
    {"jsonrpc", "id"}
    \cup (IF resp.Result # Nil THEN {"result"} ELSE {})
    \cup (IF resp.Error # NoErr THEN {"error"} ELSE {})

\* the id member as json.Encoder writes it: a nil pointer as null, else the
\* raw message as it is
EncodeId(b) == IF b = Nil THEN JNull ELSE b

\* c.enc.Encode(resp) by call t: the JSON object it puts on the stream
Encoded(t, resp) ==
    [kind |-> "envelope", by |-> t, members |-> Members(resp), jsonrpc |-> resp.Version,
     id |-> EncodeId(resp.Id), result |-> resp.Result, error |-> resp.Error]

\* c.c.Write([]byte("\n")) by call t
Newline(t) ==
    [kind |-> "newline", by |-> t, members |-> {}, jsonrpc |-> "",
     id |-> Nil, result |-> Nil, error |-> NoErr]

\* WR_Lock looking up c.seq, the last number allocated, instead of r.Seq
WR_Lock_LastSeq(t) ==
    /\ tasks[t].pc = "lock"
    /\ mutex = Free
    /\ mutex' = TaskHolds(t)
    /\ IF tasks[t].Seq \in DOMAIN pending
       THEN tasks' = [tasks EXCEPT ![t].pc = "delete", ![t].ok = TRUE,
                                   ![t].b = IF seq \in DOMAIN pending THEN pending[seq] ELSE Nil]
       ELSE tasks' = [tasks EXCEPT ![t].pc = "miss", ![t].ok = FALSE]
    /\ UNCHANGED <<req, seq, pending, closed, wire, rd, nread, hist>>

\* WR_Lock looking the entry up before it takes the lock
WR_Lock_LookupUnlocked(t) ==
    /\ tasks[t].pc = "lock"
    /\ IF tasks[t].Seq \in DOMAIN pending
       THEN tasks' = [tasks EXCEPT ![t].pc = "delete", ![t].ok = TRUE,
                                   ![t].b = pending[tasks[t].Seq]]
       ELSE tasks' = [tasks EXCEPT ![t].pc = "miss", ![t].ok = FALSE]
    /\ UNCHANGED <<req, seq, pending, mutex, closed, wire, rd, nread, hist>>

\* lines 121-122: c.mutex.Lock(); b, ok := c.pending[r.Seq]
WR_Lock(t) ==
    /\ tasks[t].pc = "lock"
    /\ mutex = Free
    /\ mutex' = TaskHolds(t)
    /\ IF tasks[t].Seq \in DOMAIN pending
       THEN tasks' = [tasks EXCEPT ![t].pc = "delete", ![t].ok = TRUE,
                                   ![t].b = pending[tasks[t].Seq]]
       ELSE tasks' = [tasks EXCEPT ![t].pc = "miss", ![t].ok = FALSE]
    /\ UNCHANGED <<req, seq, pending, closed, wire, rd, nread, hist>>

\* WR_Miss returning early without the Unlock
WR_Miss_NoUnlock(t) ==
    /\ tasks[t].pc = "miss"
    /\ tasks' = [tasks EXCEPT ![t].pc = "unresolved"]
    /\ UNCHANGED <<req, seq, pending, mutex, closed, wire, rd, nread, hist>>

\* line 124: if !ok { c.mutex.Unlock()
WR_Miss(t) ==
    /\ tasks[t].pc = "miss"
    /\ mutex' = Free
    /\ tasks' = [tasks EXCEPT ![t].pc = "unresolved"]
    /\ UNCHANGED <<req, seq, pending, closed, wire, rd, nread, hist>>

\* WR_Unresolved writing an envelope whether or not there is an error
WR_Unresolved_AlwaysWrite(t) ==
    /\ tasks[t].pc = "unresolved"
    /\ tasks' = [tasks EXCEPT ![t].pc = "done", ![t].ret = NoErr]
    /\ wire' = wire \cup {Encoded(t, [Version |-> Version, Id |-> null, Result |-> Nil,
                                      Error |-> tasks[t].Error])}
    /\ UNCHANGED <<req, seq, pending, mutex, closed, rd, nread, hist>>

\* WR_Unresolved that never writes: any unresolved number is a local error
WR_Unresolved_NoWrite(t) ==
    /\ tasks[t].pc = "unresolved"
    /\ tasks' = [tasks EXCEPT ![t].pc = "done", ![t].ret = InvalidSeqError]
    /\ UNCHANGED <<req, seq, pending, mutex, closed, wire, rd, nread, hist>>

\* lines 127-133: the sequence number has no entry
WR_Unresolved(t) ==
    /\ tasks[t].pc = "unresolved"
    /\ IF tasks[t].Error # NoErr
       THEN LET resp == [Version |-> Version, Id |-> null, Result |-> Nil,
                         Error |-> tasks[t].Error]
            IN  IF closed
                THEN /\ tasks' = [tasks EXCEPT ![t].pc = "done", ![t].ret = StreamError]
                     /\ UNCHANGED wire
                ELSE /\ tasks' = [tasks EXCEPT ![t].pc = "done", ![t].ret = NoErr]
                     /\ wire' = wire \cup {Encoded(t, resp)}
       ELSE /\ tasks' = [tasks EXCEPT ![t].pc = "done", ![t].ret = InvalidSeqError]
            /\ UNCHANGED wire
    /\ UNCHANGED <<req, seq, pending, mutex, closed, rd, nread, hist>>

\* WR_Delete without the delete
WR_Delete_Keep(t) ==
    /\ tasks[t].pc = "delete"
    /\ mutex' = Free
    /\ tasks' = [tasks EXCEPT ![t].pc = "write"]
    /\ UNCHANGED <<req, seq, pending, closed, wire, rd, nread, hist>>

\* lines 135-136: delete(c.pending, r.Seq); c.mutex.Unlock()
WR_Delete(t) ==
    /\ tasks[t].pc = "delete"
    /\ pending' = [n \in DOMAIN pending \ {tasks[t].Seq} |-> pending[n]]
    /\ mutex' = Free
    /\ tasks' = [tasks EXCEPT ![t].pc = "write"]
    /\ UNCHANGED <<req, seq, closed, wire, rd, nread, hist>>

\* lines 145-150: the envelope for a resolved identifier b
Response(b, x, e) ==
    IF e = NoErr
    THEN [Version |-> Version, Id |-> b, Result |-> x, Error |-> NoErr]
    ELSE [Version |-> Version, Id |-> b, Result |-> Nil, Error |-> e]

\* WR_Write answering a notification like any other request: an envelope
\* whose id is null
WR_Write_NullEnvelope(t) ==
    /\ tasks[t].pc = "write"
    /\ IF closed
       THEN /\ tasks' = [tasks EXCEPT ![t].pc = "done", ![t].ret = StreamError]
            /\ UNCHANGED wire
       ELSE /\ tasks' = [tasks EXCEPT ![t].pc = "done", ![t].ret = NoErr]
            /\ wire' = wire \cup {Encoded(t, Response(tasks[t].b, tasks[t].x, tasks[t].Error))}
    /\ UNCHANGED <<req, seq, pending, mutex, closed, rd, nread, hist>>

\* lines 138-151: the notification's newline, or the envelope
WR_Write(t) ==
    /\ tasks[t].pc = "write"
    /\ IF tasks[t].b = Nil
       THEN \* the result of c.c.Write is dropped
            /\ tasks' = [tasks EXCEPT ![t].pc = "done", ![t].ret = NoErr]
            /\ wire' = IF closed THEN wire ELSE wire \cup {Newline(t)}
       ELSE IF closed
            THEN /\ tasks' = [tasks EXCEPT ![t].pc = "done", ![t].ret = StreamError]
                 /\ UNCHANGED wire
            ELSE /\ tasks' = [tasks EXCEPT ![t].pc = "done", ![t].ret = NoErr]
                 /\ wire' = wire \cup {Encoded(t, Response(tasks[t].b, tasks[t].x, tasks[t].Error))}
    /\ UNCHANGED <<req, seq, pending, mutex, closed, rd, nread, hist>>

\* Close dropping the entries that are still pending
Close_ClearsPending ==
    /\ rd.pc = "idle"
    /\ ~LoopBusy
    /\ ~closed
    /\ closed' = TRUE
    /\ pending' = <<>>
    /\ rd' = [rd EXCEPT !.pc = "stopped"]
    /\ UNCHANGED <<req, seq, mutex, wire, tasks, nread, hist>>

\* lines 154-156: c.c.Close(), once the reader has stopped reading
Close ==
    /\ rd.pc = "idle"
    /\ ~LoopBusy
    /\ ~closed
    /\ closed' = TRUE
    /\ rd' = [rd EXCEPT !.pc = "stopped"]
    /\ UNCHANGED <<req, seq, pending, mutex, wire, tasks, nread, hist>>

(* ---- the dispatch loop that calls the codec ---- *)

\* the registered methods and the shape of their argument: Arith.Sub takes []int
Registered == {ArithSub}
DestFor(m) == IF m \in Registered THEN <<"array">> ELSE NoDest

\* what the loop passes as x when it has no reply to send
InvalidRequestValue == <<"object", "{}">>
\* the reply of Arith.Sub
Reply == <<"number", "19">>
\* the error of Arith.WithCustomError
CustomError == RPCError(ErrCodeCustom, "Custom error", NoData)
\* the error the loop sends when the header could not be decoded
ParseError == RPCError(ErrCodeParse, ErrMsgParse, <<"server cannot decode request">>)
MethodNotFound == RPCError(ErrCodeMethodNotFound, ErrMsgMethodNotFound, NoData)

\* the request the loop is serving, and the path it took
Why(cause) == [cause |-> cause, in |-> rd.in]

\* ReadRequestHeader failed: the loop answers with the sequence number of a
\* fresh Request, 0, and goes on reading
ServeHeaderError ==
    /\ rd.pc = "hdrfail"
    /\ LET e == IF rd.ret.kind = "rpc" THEN rd.ret ELSE ParseError
           c == IF rd.ret.kind = "rpc" THEN "nodot" ELSE "syntax"
       IN  tasks' = Append(tasks, Call(rd.Seq, InvalidRequestValue, e, Why(c)))
    /\ rd' = [rd EXCEPT !.pc = "idle"]
    /\ UNCHANGED <<req, seq, pending, mutex, closed, wire, nread, hist>>

\* ReadRequestHeader succeeded: the loop reads the body into the argument of
\* the method, or discards it when the method is not registered
ServeBody ==
    \E x \in Dests : x = DestFor(rd.ServiceMethod) /\ ReadRequestBody(x)

\* what becomes of a request whose handler runs: the calls of WriteResponse
\* made for it.  A handler answers with its reply or with its error; a
\* defective caller (cause "extra") answers twice, once with a nil result
\* and no error and once with both a result and an error
Answers(n) ==
    { <<Call(n, Reply, NoErr, Why("result"))>>,
      <<Call(n, InvalidRequestValue, CustomError, Why("error"))>>,
      <<Call(n, Nil, NoErr, Why("extra")), Call(n, Reply, CustomError, Why("extra"))>> }

\* the loop answers an unknown method and a rejected body itself, and leaves
\* the answer of a handler to the handler's goroutine
Dispatch ==
    /\ rd.pc = "body"
    /\ \E a \in Answers(rd.Seq) :
         LET c == IF rd.ServiceMethod \notin Registered THEN <<Call(rd.Seq, InvalidRequestValue, MethodNotFound, Why("notfound"))>>
                  ELSE IF rd.ret # NoErr THEN <<Call(rd.Seq, InvalidRequestValue, rd.ret, Why("body"))>>
                  ELSE a
         IN  tasks' = tasks \o c
    /\ rd' = [rd EXCEPT !.pc = "idle"]
    /\ UNCHANGED <<req, seq, pending, mutex, closed, wire, nread, hist>>

Next ==
    \/ \E in \in Inputs : RRH_Decode(in)
    \/ RRH_Lock
    \/ RRH_Store
    \/ ServeHeaderError
    \/ ServeBody
    \/ Dispatch
    \/ \E t \in DOMAIN tasks : WR_Lock(t)
    \/ \E t \in DOMAIN tasks : WR_Miss(t)
    \/ \E t \in DOMAIN tasks : WR_Unresolved(t)
    \/ \E t \in DOMAIN tasks : WR_Delete(t)
    \/ \E t \in DOMAIN tasks : WR_Write(t)
    \/ Close

Spec == Init /\ [][Next]_vars

(* ---- scheduling ---- *)
\* the calls of WriteResponse there can be: a caller makes at most two for a
\* request
TaskIds == 1..(2 * MaxReq)

\* A goroutine that can run does run, and sync.Mutex hands the lock to a
\* goroutine that waits for it: the steps that take the lock and the steps
\* inside the locked region are taken when they stay possible.  Nothing is
\* assumed of the steps that read or write the stream, which may block for
\* ever, nor of the peer and the handlers.
Fairness ==
    /\ WF_vars(RRH_Lock)
    /\ WF_vars(RRH_Store)
    /\ \A t \in TaskIds :
          /\ WF_vars(t \in DOMAIN tasks /\ WR_Lock(t))
          /\ WF_vars(t \in DOMAIN tasks /\ WR_Miss(t))
          /\ WF_vars(t \in DOMAIN tasks /\ WR_Delete(t))

FairSpec == Spec /\ Fairness

(***************************************************************************)
(* What is checked of the model                                            *)
(***************************************************************************)

\* the sequence numbers ReadRequestHeader has returned
Allocated == { hist[k].seq : k \in DOMAIN hist }
\* the call that wrote an item of the stream
Writer(w) == tasks[w.by]
\* the items a call has written
WrittenBy(t) == { w \in wire : w.by = t }
ErrorOnly == {"jsonrpc", "id", "error"}
ResultOnly == {"jsonrpc", "id", "result"}

\* C1: every envelope written by a call that resolved its sequence number n
\* carries the id member, raw and unchanged, of the request for which
\* ReadRequestHeader returned n, whatever the order in which the calls
\* complete and whether the envelope holds a result or an error.
C1_IdentifierCorrelation ==
    \A w \in wire :
        (w.kind = "envelope" /\ Writer(w).ok) =>
            /\ "id" \in w.members
            /\ \E k \in DOMAIN hist : hist[k].seq = Writer(w).Seq
            /\ \A k \in DOMAIN hist : hist[k].seq = Writer(w).Seq => w.id = hist[k].id

\* two requests with the same id in flight: the second has been answered, with
\* an error, while the call for the first has not taken the lock yet and the
\* table still holds the entry of the first
C1_Witness ==
    /\ Len(hist) = 2 /\ hist[1].id = IdNum /\ hist[2].id = IdNum
    /\ DOMAIN pending = {1}
    /\ \E t \in DOMAIN tasks : tasks[t].Seq = 1 /\ tasks[t].pc = "lock"
    /\ \E w \in wire :
          /\ w.kind = "envelope" /\ Writer(w).ok /\ Writer(w).Seq = 2
          /\ w.id = IdNum /\ w.members = ErrorOnly

\* C2 as stated: at most one envelope is written by the calls made with an
\* allocated sequence number.
C2_AtMostOneEnvelopePerSeq ==
    \A v, w \in wire :
        ( /\ v.kind = "envelope" /\ w.kind = "envelope"
          /\ Writer(v).Seq \in Allocated
          /\ Writer(v).Seq = Writer(w).Seq ) => v = w

\* C2 as amended: at most one call resolves a sequence number and at most one
\* item (envelope or newline) is written by resolving it; every other envelope
\* of a call with that number comes from the unresolved path and carries id
\* null and an error only.
C2_AtMostOneResolvedWrite ==
    /\ \A t, u \in DOMAIN tasks :
          (tasks[t].ok /\ tasks[u].ok /\ tasks[t].Seq = tasks[u].Seq) => t = u
    /\ \A v, w \in wire :
          (Writer(v).ok /\ Writer(w).ok /\ Writer(v).Seq = Writer(w).Seq) => v = w
    /\ \A w \in wire :
          (w.kind = "envelope" /\ ~Writer(w).ok) =>
              w.id = JNull /\ w.members = ErrorOnly

\* a sequence number answered twice: the call that resolved it wrote its
\* envelope, the other one wrote an envelope with id null
C2_Witness ==
    \E v, w \in wire :
        /\ v # w /\ Writer(v).Seq = Writer(w).Seq /\ Writer(v).Seq \in Allocated
        /\ v.kind = "envelope" /\ Writer(v).ok /\ v.id = IdNum
        /\ w.kind = "envelope" /\ ~Writer(w).ok /\ w.id = JNull

\* the calls the loop and the handlers make for a request, one per request
Proper(t) == tasks[t].why.cause # "extra"
HasDot(m) == \E i \in 1..Len(m) : m[i] = "."

\* C3 as stated: no envelope is written for a request without an id member,
\* on any of the paths: header rejected for a method without '.', body
\* rejected, method not found, handler result, handler error.
C3_NoEnvelopeForNotification ==
    \A w \in wire :
        ( /\ Proper(w.by)
          /\ Writer(w).why.in.wf
          /\ Writer(w).why.in.id = Absent ) => w.kind # "envelope"

\* C3 as amended: for a request without an id member that ReadRequestHeader
\* accepted, the call that answers it (body rejected, method not found,
\* handler result, handler error) writes no envelope: a newline or nothing.
C3_NoEnvelopeForAcceptedNotification ==
    /\ \A w \in wire :
          ( /\ Proper(w.by)
            /\ Writer(w).why.in.wf
            /\ Writer(w).why.in.id = Absent
            /\ HasDot(Writer(w).why.in.method) ) => w.kind = "newline"
    /\ \A t \in DOMAIN tasks :
          ( /\ Proper(t)
            /\ tasks[t].why.in.wf
            /\ tasks[t].why.in.id = Absent
            /\ HasDot(tasks[t].why.in.method) ) => tasks[t].Seq \in Allocated

\* notifications answered on each of the four paths after the header, with
\* nothing but newlines on the stream
C3_Witness ==
    /\ Cardinality(wire) = 2
    /\ \A w \in wire : w.kind = "newline" /\ Writer(w).why.in.id = Absent
    /\ { Writer(w).why.cause : w \in wire } \in
           {{"body", "notfound"}, {"result", "error"}}

\* C4: for a request whose method has no '.', with or without an id member,
\* ReadRequestHeader fails with a typed error of code -32600, and the answer
\* written for it is the Invalid-Request error envelope with id null.
C4_NoDotInvalidRequest ==
    /\ (rd.in.wf /\ ~HasDot(rd.in.method)) =>
          /\ rd.pc \in {"hdrfail", "idle", "stopped"}
          /\ rd.ret.kind = "rpc" /\ rd.ret.code = ErrCodeInvalidReq
          /\ rd.ret.msg = ErrMsgInvalidReq
    /\ \A t \in DOMAIN tasks :
          (Proper(t) /\ tasks[t].why.in.wf /\ ~HasDot(tasks[t].why.in.method)) =>
              /\ tasks[t].Seq = 0
              /\ tasks[t].Error.code = ErrCodeInvalidReq
              /\ tasks[t].pc = "done" =>
                    /\ tasks[t].ret = NoErr
                    /\ Cardinality(WrittenBy(t)) = 1
                    /\ \A w \in WrittenBy(t) :
                          /\ w.kind = "envelope"
                          /\ w.id = JNull
                          /\ w.members = ErrorOnly
                          /\ w.error.code = ErrCodeInvalidReq
                          /\ w.error.msg = ErrMsgInvalidReq

\* a request without '.' and without id, and one with an id, both answered
C4_Witness ==
    \E t, u \in DOMAIN tasks :
        /\ tasks[t].pc = "done" /\ tasks[u].pc = "done"
        /\ tasks[t].why.cause = "nodot" /\ tasks[u].why.cause = "nodot"
        /\ tasks[t].why.in.id = Absent /\ tasks[u].why.in.id = IdStr
        /\ WrittenBy(t) # {} /\ WrittenBy(u) # {}

\* C5: a request that cannot be decoded makes ReadRequestHeader return the
\* decoder's failure, not a typed error, and is answered with a Parse-Error
\* envelope with id null and a data member; it is not dropped.
C5_SyntaxFailureParseError ==
    /\ (~rd.in.wf /\ nread > 0) =>
          /\ rd.pc \in {"hdrfail", "idle", "stopped"}
          /\ rd.ret.kind = "raw"
    /\ (~rd.in.wf /\ nread > 0 /\ rd.pc # "hdrfail") =>
          \E t \in DOMAIN tasks : tasks[t].why.cause = "syntax" /\ tasks[t].why.in = rd.in
    /\ \A t \in DOMAIN tasks :
          (Proper(t) /\ ~tasks[t].why.in.wf) =>
              /\ tasks[t].Seq = 0
              /\ tasks[t].pc = "done" =>
                    /\ tasks[t].ret = NoErr
                    /\ Cardinality(WrittenBy(t)) = 1
                    /\ \A w \in WrittenBy(t) :
                          /\ w.kind = "envelope"
                          /\ w.id = JNull
                          /\ w.members = ErrorOnly
                          /\ w.error.code = ErrCodeParse
                          /\ w.error.data # NoData

\* a request that cannot be decoded, answered while an earlier request is
\* still pending
C5_Witness ==
    \E t \in DOMAIN tasks :
        /\ tasks[t].why.cause = "syntax" /\ tasks[t].pc = "done"
        /\ WrittenBy(t) # {}
        /\ pending # <<>>

\* C6: every envelope holds exactly one of the members result and error.
C6_ExactlyOneOfResultAndError ==
    \A w \in wire :
        w.kind = "envelope" =>
            ("result" \in w.members) # ("error" \in w.members)

\* the sequence numbers the table or the history speaks of
Numbers == DOMAIN pending \cup Allocated \cup {0}
\* a call has looked up and deleted the entry of n
Resolved(n) ==
    \E t \in DOMAIN tasks : tasks[t].Seq = n /\ tasks[t].ok /\ tasks[t].pc \in {"write", "done"}

\* no WriteResponse call is between its first and its last step
NoCallUnderWay == \A t \in DOMAIN tasks : tasks[t].pc \in {"lock", "done"}

\* C7 as stated, taken at the states where no call is under way: the table
\* has an entry for n exactly when a request was read as n and nothing has
\* been written to the stream for n.
C7_EntryIffReadAndUnanswered ==
    NoCallUnderWay =>
        \A n \in Numbers :
            (n \in DOMAIN pending) <=>
                (n \in Allocated /\ ~\E w \in wire : Writer(w).Seq = n)

\* C7 as amended: the table has an entry for n exactly when a request was read
\* as n and no WriteResponse call has resolved n; while there is an entry,
\* no call that resolved n has written anything.
C7_EntryIffReadAndUnresolved ==
    \A n \in Numbers :
        /\ (n \in DOMAIN pending) <=> (n \in Allocated /\ ~Resolved(n))
        /\ (n \in DOMAIN pending) => ~\E w \in wire : Writer(w).Seq = n /\ Writer(w).ok

\* after Close a call has resolved its number and failed at the write: the
\* entry is gone and nothing was written, while another entry is still there
C7_Witness ==
    /\ closed
    /\ pending # <<>>
    /\ \E t \in DOMAIN tasks :
          /\ tasks[t].ok /\ tasks[t].pc = "done" /\ tasks[t].ret = StreamError
          /\ tasks[t].Seq \notin DOMAIN pending
          /\ WrittenBy(t) = {}

\* C8: the sequence numbers ReadRequestHeader returns are 1, 2, 3, ... in read
\* order, whatever has been resolved in between.
C8_SequenceNumbers ==
    /\ \A k \in DOMAIN hist : hist[k].seq = k
    /\ seq \in {Len(hist), Len(hist) + 1}
    /\ rd.pc \in {"hdrok", "body"} => (rd.Seq = Len(hist) /\ rd.Seq >= 1)

\* the second request gets its number after the entry of the first has been
\* resolved and the table is empty again
C8_Witness ==
    /\ rd.pc = "hdrok" /\ rd.Seq = 2
    /\ DOMAIN pending = {2}
    /\ \E t \in DOMAIN tasks : tasks[t].Seq = 1 /\ tasks[t].ok /\ tasks[t].pc = "done"

\* json.Unmarshal of a raw member into a destination: null decodes into any
\* destination, anything else when it has the destination's shape
DecodesInto(m, x) == m = JNull \/ m[1] = x[1]

\* the outcome C9 states for a request in and a destination x
StatedBodyCode(in, x) ==
    IF x = NoDest THEN 0
    ELSE IF in.params = Absent THEN ErrCodeInvalidParams
    ELSE IF ~DecodesInto(in.params, x) THEN ErrCodeParse
    ELSE 0

\* the outcome with a null params member counted as no params
AmendedBodyCode(in, x) ==
    IF x = NoDest THEN 0
    ELSE IF in.params = Absent \/ in.params = JNull THEN ErrCodeInvalidParams
    ELSE IF ~DecodesInto(in.params, x) THEN ErrCodeParse
    ELSE 0

\* C9 as stated: ReadRequestBody succeeds without a destination, fails with
\* -32602 when there is a destination and no params member, with -32700 when
\* the params do not decode into the destination, succeeds otherwise; and it
\* leaves seq and pending as they are.
C9_BodyOutcomeAsStated ==
    [][(rd.pc = "hdrok" /\ rd'.pc = "body") =>
          /\ rd'.ret.code = StatedBodyCode(rd.in, DestFor(rd.ServiceMethod))
          /\ seq' = seq /\ pending' = pending]_vars

\* C9 as amended: as stated, except that with a destination a params member
\* that is JSON null fails with -32602 like a missing one.
C9_BodyOutcome ==
    [][(rd.pc = "hdrok" /\ rd'.pc = "body") =>
          /\ rd'.ret.code = AmendedBodyCode(rd.in, DestFor(rd.ServiceMethod))
          /\ rd'.ret.kind = (IF rd'.ret.code = 0 THEN "nil" ELSE "rpc")
          /\ seq' = seq /\ pending' = pending]_vars

\* ReadRequestBody has rejected null params with -32602 while an entry is
\* pending
C9_Witness ==
    /\ rd.pc = "body"
    /\ rd.in.params = JNull
    /\ rd.ret.code = ErrCodeInvalidParams
    /\ rd.Seq \in DOMAIN pending

\* the envelope of the unresolved path: id null and the error, nothing else
NullEnvelope(t, e) ==
    [kind |-> "envelope", by |-> t, members |-> ErrorOnly, jsonrpc |-> "2.0",
     id |-> JNull, result |-> Nil, error |-> e]

\* C10: a WriteResponse call with an error whose sequence number has no entry
\* puts exactly one envelope on the stream, with id null and that error (the
\* encoder's error and nothing written once the stream is closed), and no
\* step of it changes seq or pending.
C10_UnresolvedWithError ==
    [][\A t \in DOMAIN tasks :
          ( /\ tasks[t].Error # NoErr
            /\ tasks[t].pc # tasks'[t].pc
            /\ tasks'[t].pc \in {"miss", "unresolved", "done"}
            /\ ~tasks'[t].ok ) =>
              /\ seq' = seq /\ pending' = pending
              /\ IF tasks'[t].pc # "done" THEN wire' = wire
                 ELSE IF closed THEN wire' = wire /\ tasks'[t].ret = StreamError
                 ELSE /\ wire' = wire \cup {NullEnvelope(t, tasks[t].Error)}
                      /\ tasks'[t].ret = NoErr
                      /\ WrittenBy(t) = {}]_vars

\* a second answer to a sequence number, with an error, has written its
\* envelope with id null while the entry of another request is pending
C10_Witness ==
    \E t \in DOMAIN tasks :
        /\ tasks[t].pc = "done" /\ ~tasks[t].ok /\ tasks[t].Seq \in Allocated
        /\ tasks[t].Error = CustomError
        /\ NullEnvelope(t, CustomError) \in wire
        /\ pending # <<>>

\* C11: a WriteResponse call without an error whose sequence number has no
\* entry returns the local error "invalid sequence number in response", puts
\* nothing on the stream, and no step of it changes seq or pending.
C11_UnresolvedWithoutError ==
    [][\A t \in DOMAIN tasks :
          ( /\ tasks[t].Error = NoErr
            /\ tasks[t].pc # tasks'[t].pc
            /\ tasks'[t].pc \in {"miss", "unresolved", "done"}
            /\ ~tasks'[t].ok ) =>
              /\ seq' = seq /\ pending' = pending
              /\ wire' = wire
              /\ WrittenBy(t) = {}
              /\ tasks'[t].pc = "done" =>
                    /\ tasks'[t].ret = InvalidSeqError
                    /\ tasks'[t].ret.kind = "local"]_vars

\* a call with neither result nor error came second for its sequence number:
\* it has returned the local error and the stream holds only the envelope of
\* the call that resolved the number
C11_Witness ==
    \E t, u \in DOMAIN tasks :
        /\ tasks[t].pc = "done" /\ ~tasks[t].ok /\ tasks[t].Seq \in Allocated
        /\ tasks[t].Error = NoErr /\ tasks[t].x = Nil
        /\ tasks[t].ret = InvalidSeqError
        /\ WrittenBy(t) = {}
        /\ tasks[u].Seq = tasks[t].Seq /\ tasks[u].ok /\ WrittenBy(u) # {}

\* C12: a WriteResponse call that resolved a sequence number whose stored
\* identifier is nil (the request was a notification) removes the entry, then
\* writes one newline and no envelope (nothing reaches a stream that is
\* already closed) and returns nil, whether it carries a result or an error.
C12_NotificationNewline ==
    [][\A t \in DOMAIN tasks :
          (tasks[t].ok /\ tasks[t].b = Nil /\ tasks[t].pc # tasks'[t].pc) =>
              /\ tasks[t].pc = "delete" =>
                    /\ tasks[t].Seq \in DOMAIN pending
                    /\ tasks[t].Seq \notin DOMAIN pending'
                    /\ wire' = wire
              /\ tasks[t].pc = "write" =>
                    /\ tasks[t].Seq \notin DOMAIN pending
                    /\ WrittenBy(t) = {}
                    /\ wire' = (IF closed THEN wire ELSE wire \cup {Newline(t)})
                    /\ tasks'[t].pc = "done"
                    /\ tasks'[t].ret = NoErr]_vars

\* two notifications answered, one with a result and one with an error: the
\* table is empty again and the stream holds the two newlines and nothing else
C12_Witness ==
    \E t, u \in DOMAIN tasks :
        /\ tasks[t].pc = "done" /\ tasks[t].ok /\ tasks[t].b = Nil
        /\ tasks[u].pc = "done" /\ tasks[u].ok /\ tasks[u].b = Nil
        /\ tasks[t].Error = NoErr /\ tasks[t].x = Reply
        /\ tasks[u].Error = CustomError
        /\ tasks[t].ret = NoErr /\ tasks[u].ret = NoErr
        /\ wire = {Newline(t), Newline(u)}
        /\ pending = <<>>

\* the calls that have found an entry for n
Resolvers(n) == { t \in DOMAIN tasks : tasks[t].Seq = n /\ tasks[t].ok }

\* C13: of the WriteResponse calls made with one sequence number at most one
\* finds the entry; between its lookup and its delete it holds the lock, the
\* entry stays as it found it, no other call and no ReadRequestHeader is in
\* the locked region, and the only step that changes seq, pending or the
\* lock is its own delete; every other call with that number finds no entry.
C13_AtomicResolve ==
    /\ [](\A n \in Numbers : Cardinality(Resolvers(n)) <= 1)
    /\ [](\A t \in DOMAIN tasks :
            tasks[t].pc = "delete" =>
                /\ mutex = TaskHolds(t)
                /\ tasks[t].Seq \in DOMAIN pending
                /\ pending[tasks[t].Seq] = tasks[t].b
                /\ rd.pc # "store"
                /\ \A u \in DOMAIN tasks \ {t} : tasks[u].pc \notin {"delete", "miss"})
    /\ [](\A t, u \in DOMAIN tasks :
            ( /\ t # u /\ tasks[t].Seq = tasks[u].Seq
              /\ tasks[t].ok
              /\ tasks[u].pc \in {"miss", "unresolved", "done"} ) => ~tasks[u].ok)
    /\ [][\A t \in DOMAIN tasks :
            (tasks[t].pc = "delete" /\ <<seq, pending, mutex>>' # <<seq, pending, mutex>>) =>
                /\ tasks'[t].pc = "write"
                /\ seq' = seq
                /\ DOMAIN pending' = DOMAIN pending \ {tasks[t].Seq}
                /\ \A n \in DOMAIN pending' : pending'[n] = pending[n]]_vars

\* two calls with one sequence number: one has resolved it and not written
\* yet, the other is inside the locked region and has found no entry
C13_Witness ==
    \E t, u \in DOMAIN tasks :
        /\ t # u /\ tasks[t].Seq = tasks[u].Seq /\ tasks[t].Seq \in Allocated
        /\ tasks[t].ok /\ tasks[t].pc = "write"
        /\ tasks[u].pc = "miss" /\ ~tasks[u].ok /\ mutex = TaskHolds(u)
        /\ tasks[t].Seq \notin DOMAIN pending

\* who is between a Lock and its Unlock: the reader (lines 86-91) or a call of
\* WriteResponse (lines 121-136)
InRegion ==
    (IF rd.pc = "store" THEN {ReaderHolds} ELSE {})
    \cup { TaskHolds(t) : t \in { u \in DOMAIN tasks : tasks[u].pc \in {"delete", "miss"} } }

\* C14: at most one operation is inside the locked region, and it is the
\* holder of the lock; seq is written, and an entry of pending is stored,
\* looked up or deleted, only by the holder of the lock.
C14_MutualExclusion ==
    /\ [](/\ Cardinality(InRegion) <= 1
          /\ InRegion = (IF mutex = Free THEN {} ELSE {mutex}))
    /\ [][/\ seq' # seq => (mutex = Free /\ mutex' = ReaderHolds /\ rd.pc = "lock")
          /\ (DOMAIN pending' \ DOMAIN pending # {}) => (mutex = ReaderHolds /\ rd.pc = "store")
          /\ \A n \in DOMAIN pending \ DOMAIN pending' :
                \E t \in DOMAIN tasks : mutex = TaskHolds(t) /\ tasks[t].Seq = n
          /\ \A n \in DOMAIN pending \cap DOMAIN pending' : pending'[n] = pending[n]
          /\ \A t \in DOMAIN tasks :
                (tasks[t].pc = "lock" /\ tasks'[t].pc # "lock") =>
                    (mutex = Free /\ mutex' = TaskHolds(t))]_vars

\* contention: a call holds the lock between its lookup and its delete while
\* the reader and another call wait for it
C14_Witness ==
    /\ rd.pc = "lock"
    /\ \E t, u \in DOMAIN tasks :
          /\ tasks[t].pc = "delete" /\ mutex = TaskHolds(t)
          /\ tasks[u].pc = "lock"

\* C15: every request that ReadRequestHeader accepts, giving it a sequence
\* number, has the jsonrpc member "2.0".
C15_AcceptedVersionIs2 ==
    /\ rd.pc \in {"store", "hdrok", "body"} =>
          (rd.in.jsonrpc = V2 /\ req.Version = Version)
    /\ \A t \in DOMAIN tasks :
          tasks[t].Seq \in Allocated => tasks[t].why.in.jsonrpc = V2

\* what a *json.RawMessage field of a freshly reset serverRequest holds after
\* the member m of a request has been decoded
Fresh(m) == IF m = Absent \/ m = JNull THEN Nil ELSE m

\* C16: whatever came before, the work space holds the members of the request
\* decoded last and nothing else: its params when ReadRequestBody runs, its id
\* until it is moved into the table, and the table holds for every pending
\* request the id of that request.  So a request without params is rejected
\* with -32602 when there is a destination, and a request without id is
\* recorded with a nil identifier, a notification.
C16_NoFieldLeaks ==
    /\ rd.pc \in {"lock", "store", "hdrok", "body"} =>
          /\ req.Params = Fresh(rd.in.params)
          /\ req.Method = rd.in.method
          /\ req.Id = (IF rd.pc \in {"lock", "store"} THEN Fresh(rd.in.id) ELSE Nil)
    /\ \A k \in DOMAIN hist :
          hist[k].seq \in DOMAIN pending => pending[hist[k].seq] = Fresh(hist[k].id)
    /\ (rd.pc = "body" /\ rd.in.params = Absent /\ DestFor(rd.ServiceMethod) # NoDest) =>
          rd.ret.code = ErrCodeInvalidParams
    /\ (rd.pc \in {"hdrok", "body"} /\ rd.in.id = Absent /\ rd.Seq \in DOMAIN pending) =>
          pending[rd.Seq] = Nil

\* a request without params and without id has been read right after one with
\* params and id: its body is rejected with -32602 and its entry is nil while
\* the entry of the first still holds the id
C16_Witness ==
    /\ Len(hist) = 2
    /\ hist[1].id = IdNum /\ hist[2].id = Absent
    /\ DOMAIN pending = {1, 2} /\ pending[1] = IdNum /\ pending[2] = Nil
    /\ rd.pc = "body" /\ rd.Seq = 2
    /\ rd.in.params = Absent /\ rd.ret.code = ErrCodeInvalidParams
    /\ \E t \in DOMAIN tasks : tasks[t].Seq = 1 /\ tasks[t].why.in.params = PArray

\* C17: Close changes neither seq nor pending (nor any call in flight), and
\* on a closed stream a WriteResponse call still finds and deletes the entry
\* of a pending sequence number; only its write fails: an envelope is not
\* written and the encoder's error is returned, a notification's newline is
\* not written and nil is returned.
C17_CloseKeepsTable ==
    [][/\ (~closed /\ closed') =>
              (seq' = seq /\ pending' = pending /\ tasks' = tasks /\ wire' = wire)
       /\ \A t \in DOMAIN tasks :
              (closed /\ tasks[t].pc # tasks'[t].pc) =>
                  /\ tasks[t].pc = "lock" =>
                        /\ tasks'[t].ok = (tasks[t].Seq \in DOMAIN pending)
                        /\ tasks'[t].ok => tasks'[t].b = pending[tasks[t].Seq]
                        /\ tasks'[t].ret = NoErr
                  /\ tasks[t].pc = "delete" =>
                        /\ tasks[t].Seq \notin DOMAIN pending'
                        /\ tasks'[t].pc = "write"
                        /\ tasks'[t].ret = NoErr
                  /\ tasks[t].pc = "write" =>
                        /\ wire' = wire
                        /\ tasks'[t].ret = (IF tasks[t].b = Nil THEN NoErr ELSE StreamError)]_vars

\* the stream is closed with both requests accepted: one call has resolved
\* its entry and failed at the write, nothing is on the stream, and the call
\* for the other entry, still pending, has not started
C17_Witness ==
    /\ closed /\ seq = 2 /\ wire = {}
    /\ \E t, u \in DOMAIN tasks :
          /\ tasks[t].ok /\ tasks[t].pc = "done" /\ tasks[t].ret = StreamError
          /\ tasks[t].b = IdNum
          /\ tasks[u].pc = "lock" /\ tasks[u].Seq \in DOMAIN pending
          /\ DOMAIN pending = {tasks[u].Seq}

\* the part of a method string after its last '.'
BareName(m) == SubSeq(m, LastIndex(m) + 2, Len(m))

\* C18 as stated: when ReadRequestHeader succeeds, the ServiceMethod it
\* returns is the part of the request's method after the '.'.
C18_ReturnsBareMethodName ==
    rd.pc \in {"hdrok", "body"} => rd.ServiceMethod = BareName(rd.in.method)

\* C18 as amended: when ReadRequestHeader succeeds, the ServiceMethod it
\* returns is the request's method string as it was sent, the service, the
\* '.' and the method.
C18_ReturnsWholeMethodString ==
    rd.pc \in {"hdrok", "body"} =>
        /\ rd.ServiceMethod = rd.in.method
        /\ HasDot(rd.ServiceMethod)
        /\ rd.ServiceMethod # BareName(rd.in.method)
        /\ rd.Seq \in Allocated

\* ReadRequestHeader has returned sequence number 1 and "A.S" for a request
\* for method "A.S"
C18_Witness ==
    /\ rd.pc = "hdrok" /\ rd.Seq = 1 /\ rd.ret = NoErr
    /\ rd.in.method = ArithSub
    /\ rd.ServiceMethod = <<"A", ".", "S">>
    /\ BareName(rd.in.method) = <<"S">>

\* the requests whose header read has failed
FailedHeaders ==
    Cardinality({ t \in DOMAIN tasks : tasks[t].why.cause \in {"syntax", "nodot"} })
    + (IF rd.pc = "hdrfail" THEN 1 ELSE 0)

\* C19: a ReadRequestHeader that fails, because the request cannot be decoded
\* or because its method has no '.', leaves seq, pending and the lock as they
\* were and returns no sequence number (r.Seq stays 0); seq counts the
\* accepted requests only.
C19_FailedHeaderAllocatesNothing ==
    /\ [][(rd.pc = "idle" /\ rd'.pc = "hdrfail") =>
              /\ seq' = seq /\ pending' = pending /\ mutex' = mutex
              /\ rd'.Seq = 0
              /\ rd'.ret.kind \in {"raw", "rpc"}]_vars
    /\ [](rd.pc = "hdrfail" => (rd.Seq = 0 /\ (~rd.in.wf \/ ~HasDot(rd.in.method))))
    /\ [](seq + FailedHeaders + (IF rd.pc = "lock" THEN 1 ELSE 0) = nread)
    /\ [](DOMAIN pending \subseteq 1..seq)

\* a request with an id and a method without '.' was rejected, and the next
\* request got sequence number 1; the table holds that one entry
C19_Witness ==
    /\ nread = 2 /\ seq = 1
    /\ rd.pc = "hdrok" /\ rd.Seq = 1
    /\ DOMAIN pending = {1}
    /\ \E t \in DOMAIN tasks :
          /\ tasks[t].why.cause = "nodot" /\ tasks[t].why.in.id = IdStr
          /\ tasks[t].Seq = 0

\* C20: ReadRequestHeader and WriteResponse hold the lock only between Lock
\* and Unlock: not while they read or write the stream, not on the early
\* return for an unresolved sequence number, not after they have returned.
\* So with calls stuck at their stream write for ever, every call that waits
\* for the lock, and the reader when it waits, gets it.
C20_LockDiscipline ==
    /\ [](\A t \in DOMAIN tasks :
            tasks[t].pc \in {"lock", "unresolved", "write", "done"} => mutex # TaskHolds(t))
    /\ [](rd.pc \in {"idle", "lock", "hdrfail", "hdrok", "body", "stopped"} => mutex # ReaderHolds)
    /\ [][/\ \A w \in wire' \ wire : (mutex # TaskHolds(w.by) /\ mutex' = mutex)
          /\ nread' # nread => (mutex # ReaderHolds /\ mutex' = mutex)
          /\ \A t \in DOMAIN tasks :
                (tasks[t].pc # "done" /\ tasks'[t].pc = "done") =>
                    (mutex # TaskHolds(t) /\ mutex' = mutex)]_vars
    /\ \A t \in TaskIds :
          (t \in DOMAIN tasks /\ tasks[t].pc = "lock")
              ~> (t \in DOMAIN tasks /\ mutex = TaskHolds(t))
    /\ (rd.pc = "lock") ~> (mutex = ReaderHolds)

\* a call on the early return for an unresolved number and a call that has
\* resolved its number have both still to write to the stream, and the
\* reader is inside the locked region for the next request
C20_Witness ==
    /\ rd.pc = "store" /\ mutex = ReaderHolds
    /\ \E t, u \in DOMAIN tasks :
          /\ tasks[t].pc = "unresolved" /\ tasks[t].Error # NoErr
          /\ tasks[u].pc = "write" /\ tasks[u].b # Nil

====
